---- MODULE Spec2Model ----
(***************************************************************************)
(* A model of scripts/download_backgrounds.py: the mint-backgrounds        *)
(* updater.  Strings are sequences of tokens (atomic substrings), so that  *)
(* str.replace, str.split, str.lower, str.endswith and the "in" test are   *)
(* computed the way the code computes them.                                *)
(*                                                                         *)
(* Three specifications share the module:                                  *)
(*   Spec        the orchestrator: check_and_download, has_updates, main   *)
(*   SpecFetch   fetch_page over every sequence of attempt outcomes        *)
(*   SpecExtract download_and_extract over bounded archive contents        *)
(***************************************************************************)
EXTENDS Integers, Sequences, FiniteSets, TLC

VARIABLES
    \* ---- the world outside the process
    remote,             \* the mirror: root listing and one listing per directory
    versions_file,      \* versions.json on disk
    outdir,             \* the mint-backgrounds/ output tree on disk
    clock,              \* datetime.utcnow(), a counter
    \* ---- one process (one invocation of the script)
    pc,                 \* position of the running invocation
    mode,               \* "download" or "check" (sys.argv[1] == "--check-only")
    versions,           \* the document as load_versions returned it
    existing_packages,  \* versions["packages"], mutated in place by the download loop
    package_dirs,       \* result of get_package_directories()
    dir_idx,            \* index of the outer for-loop over package_dirs
    new_packages,
    updated_packages,
    all_new,
    dl_idx,             \* index of the download loop over all_new
    dl_results,         \* return values of download_and_extract, in call order
    fetches_ok,         \* every fetch_page call of the invocation returned a body
    retval,             \* return value of check_and_download / has_updates
    exit_status,        \* sys.exit code of the invocation
    runs,               \* invocations started so far
    prev,               \* summary of the invocation before the current one
    \* ---- fetch_page taken alone
    fp_outcomes,        \* what each attempt of one fetch_page call meets
    fp_result,          \* what the call did
    \* ---- download_and_extract taken alone
    de_input,           \* tarball, archive content and fault of one call
    de_result,          \* what the call did
    \* ---- extract_version_info taken alone
    ev_input,           \* the pieces of one tarball file name
    ev_result,          \* what the call returned
    \* ---- parse_size taken alone
    ps_input,           \* one size token of a directory page
    ps_result,          \* what the call returned
    \* ---- the scan of check_and_download and has_updates on two inventories
    df_input,           \* two inventory documents and one mirror
    df_result           \* what the two scans computed

envVars  == <<remote, versions_file, outdir, clock>>
runVars  == <<pc, mode, versions, existing_packages, package_dirs, dir_idx,
              new_packages, updated_packages, all_new, dl_idx, dl_results,
              fetches_ok, retval, exit_status>>
fpVars   == <<fp_outcomes, fp_result>>
deVars   == <<de_input, de_result>>
histVars == <<runs, prev>>
evVars   == <<ev_input, ev_result>>
psVars   == <<ps_input, ps_result>>
dfVars   == <<df_input, df_result>>
fnVars   == <<evVars, psVars, dfVars>>
vars     == <<envVars, runVars, histVars, fpVars, deVars, fnVars>>

-----------------------------------------------------------------------------
(* Bounds of the model *)

\* invocations of the script in one behaviour
MaxRuns == 2
\* tarballs listed in one package directory
MaxTarballs == 1
\* files in an archive given to download_and_extract taken alone
MaxFiles == 2

-----------------------------------------------------------------------------
(* Program constants *)

MIN_SIZE_MB == 13
MIN_SIZE_BYTES == MIN_SIZE_MB * 1024 * 1024
MAX_RETRIES == 3
RETRY_DELAY == 5

\* file extensions copied by download_and_extract and counted by save_versions
image_extensions == {".jpg", ".jpeg", ".png", ".svg"}

\* release names and their version numbers, in tenths (17.1 is 171)
mint_releases ==
    [n \in {"katya", "lisa", "maya", "nadia", "olivia", "petra", "qiana",
            "rafaela", "rebecca", "rosa", "sarah", "serena", "sonya", "sylvia",
            "tara", "tessa", "tina", "tricia", "ulyana", "ulyssa", "uma", "una",
            "vanessa", "vera", "victoria", "virginia", "wilma"} |->
        CASE n = "katya" -> 110 [] n = "lisa" -> 120 [] n = "maya" -> 130
          [] n = "nadia" -> 140 [] n = "olivia" -> 150 [] n = "petra" -> 160
          [] n = "qiana" -> 170 [] n = "rafaela" -> 171 [] n = "rebecca" -> 172
          [] n = "rosa" -> 173 [] n = "sarah" -> 180 [] n = "serena" -> 181
          [] n = "sonya" -> 182 [] n = "sylvia" -> 183 [] n = "tara" -> 190
          [] n = "tessa" -> 191 [] n = "tina" -> 192 [] n = "tricia" -> 193
          [] n = "ulyana" -> 200 [] n = "ulyssa" -> 201 [] n = "uma" -> 202
          [] n = "una" -> 203 [] n = "vanessa" -> 210 [] n = "vera" -> 211
          [] n = "victoria" -> 212 [] n = "virginia" -> 213 [] n = "wilma" -> 220]

-----------------------------------------------------------------------------
(* Strings as token sequences *)

\* str.replace(tok, ""): every occurrence of the token is removed
Remove(s, tok) == SelectSeq(s, LAMBDA t : t # tok)

\* tok in s
Contains(s, tok) == \E i \in 1..Len(s) : s[i] = tok

\* position of the first occurrence of tok in s
FirstIndex(s, tok) ==
    CHOOSE i \in 1..Len(s) : s[i] = tok /\ \A j \in 1..(i - 1) : s[j] # tok

\* str.lower() of one token
LowerTok(t) ==
    CASE t = "Screenshot" -> "screenshot"
      [] t = "Credits"    -> "credits"
      [] t = ".JPG"       -> ".jpg"
      [] t = ".PNG"       -> ".png"
      [] OTHER            -> t

\* str.lower()
Lower(s) == [i \in 1..Len(s) |-> LowerTok(s[i])]

\* any(s.endswith(ext) for ext in exts)
EndsWithAny(s, exts) == Len(s) > 0 /\ s[Len(s)] \in exts

\* os.path.splitext(file)[1].lower() in exts
ExtIn(s, exts) == Len(s) > 1 /\ LowerTok(s[Len(s)]) \in exts

-----------------------------------------------------------------------------
(* Listing Parser and Version Key Resolver *)

\* re.match(r"([0-9.]+)([MKG])", size_str) finds a match
size_matches(size_str) == size_str.unit \in {"M", "K", "G"}

\* multipliers.get(unit, 1)
multiplier(unit) ==
    CASE unit = "K" -> 1024
      [] unit = "M" -> 1024 * 1024
      [] unit = "G" -> 1024 * 1024 * 1024
      [] OTHER      -> 1

\* parse_size: a size token is [num10, unit], the number in tenths ("16.5M"
\* is [num10 |-> 165, unit |-> "M"]); int(float * multiplier) truncates
parse_size(size_str) ==
    IF ~ size_matches(size_str) THEN 0
    ELSE (size_str.num10 * multiplier(size_str.unit)) \div 10

\* extract_version_info splitting at the last underscore
extract_version_info_rsplit(tarball_name) ==
    LET base == Remove(Remove(tarball_name, ".tar.gz"), "mint-backgrounds-")
    IN  IF Contains(base, "_")
        THEN LET i == CHOOSE k \in 1..Len(base) :
                           base[k] = "_" /\ \A j \in (k + 1)..Len(base) : base[j] # "_"
             IN  <<SubSeq(base, 1, i - 1), SubSeq(base, i + 1, Len(base))>>
        ELSE <<base, <<"unknown">> >>

\* extract_version_info
extract_version_info(tarball_name) ==
    LET base == Remove(Remove(tarball_name, ".tar.gz"), "mint-backgrounds-")
    IN  IF Contains(base, "_")
        THEN LET i == FirstIndex(base, "_")
             IN  <<SubSeq(base, 1, i - 1), SubSeq(base, i + 1, Len(base))>>
        ELSE <<base, <<"unknown">> >>

\* normalize_package_name
normalize_package_name(name) == Remove(name, "-extra")

\* pkg_key = f"{package_name}_{version}"
pkg_key_of(tarball_name) ==
    LET info == extract_version_info(tarball_name)
    IN  info[1] \o <<"_">> \o info[2]

-----------------------------------------------------------------------------
(* HTTP Fetcher *)

\* What one attempt of fetch_page can meet at urlopen / read / decode:
\*   ok          the body is read and decoded
\*   http429/503 HTTPError with e.code 429 or 503
\*   http_other  HTTPError with any other code
\*   urlerror    URLError that is not an HTTPError (connection error, timeout
\*               while connecting)
\*   other_exc   an exception that is not a URLError: socket timeout or
\*               connection reset inside response.read(), UnicodeDecodeError
\*               from decode("utf-8")
AttemptOutcomes == {"ok", "http429", "http503", "http_other", "urlerror", "other_exc"}

\* the result of a call that has not been made
NotCalled == [called |-> FALSE, raised |-> FALSE, text |-> "", requests |-> 0, waits |-> <<>>]

\* an except HTTPError branch that goes on to the next attempt on any status
http_error_retries_on_any_status(code) == TRUE

\* the except HTTPError branch: TRUE when the loop goes on to the next attempt
http_error_retries(code) == code = "http429" \/ code = "http503"

\* an except URLError branch that waits and goes on after every attempt
url_error_retries_after_last(attempt) == TRUE

\* the except URLError branch: TRUE when the loop goes on to the next attempt
url_error_retries(attempt) == attempt < MAX_RETRIES - 1

\* the body of fetch_page's for-loop from `attempt` on; outs[attempt + 1] is
\* what that attempt meets, acc the requests and backoff waits so far
RECURSIVE fetch_loop(_, _, _)
fetch_loop(outs, attempt, acc) ==
    IF attempt >= MAX_RETRIES
    THEN [acc EXCEPT !.text = ""]
    ELSE LET o    == outs[attempt + 1]
             sent == [acc EXCEPT !.requests = @ + 1]
             wait == [sent EXCEPT !.waits = Append(@, RETRY_DELAY * (attempt + 1))]
         IN  CASE o = "ok" -> [sent EXCEPT !.text = "body"]
               [] o \in {"http429", "http503", "http_other"} ->
                     IF http_error_retries(o)
                     THEN fetch_loop(outs, attempt + 1, wait)
                     ELSE [sent EXCEPT !.text = ""]
               [] o = "urlerror" ->
                     IF url_error_retries(attempt)
                     THEN fetch_loop(outs, attempt + 1, wait)
                     ELSE [sent EXCEPT !.text = ""]
               [] o = "other_exc" -> [sent EXCEPT !.raised = TRUE]

\* fetch_page(url), given what its attempts meet
fetch_page(outs) == fetch_loop(outs, 0, [NotCalled EXCEPT !.called = TRUE])

\* every sequence of attempt outcomes
OutcomeSeqs == [1..MAX_RETRIES -> AttemptOutcomes]

\* what a caller of fetch_page can get back: "body", "" or an exception
FetchReturns == {[raised |-> fetch_page(o).raised, text |-> fetch_page(o).text] : o \in OutcomeSeqs}

-----------------------------------------------------------------------------
(* Archive Processor *)

\* a mapping with no keys
EmptyMap == [k \in {} |-> 0]

\* d[k] = v on a dict
Put(d, k, v) == [x \in (DOMAIN d) \cup {k} |-> IF x = k THEN v ELSE d[x]]

\* an output tree that does not exist
NoOutput == [exists |-> FALSE, dirs |-> EmptyMap]

\* the is-an-image test of the copy loop
is_image(file_lower) == EndsWithAny(file_lower, image_extensions)

\* a copy loop without the os.path.islink test
copy_target_following_links(file, package_name) ==
    LET file_lower == Lower(file.name)
    IN  IF is_image(file_lower)
        THEN (IF Contains(file_lower, "screenshot") THEN <<>> ELSE file.name)
        ELSE IF Contains(file_lower, "credits")
             THEN <<"Credits_">> \o package_name
             ELSE <<>>

\* what the copy loop does with one walked file: the destination name, or
\* <<>> when the file is skipped
copy_target(file, package_name) ==
    LET file_lower == Lower(file.name)
    IN  IF file.link THEN <<>>
        ELSE IF is_image(file_lower)
             THEN (IF Contains(file_lower, "screenshot") THEN <<>> ELSE file.name)
             ELSE IF Contains(file_lower, "credits")
                  THEN <<"Credits_">> \o package_name
                  ELSE <<>>

\* the os.walk loop from file i on; fault is the index of the walked file whose
\* copy raises (no copy raises when that file is skipped or fault > Len(files))
RECURSIVE walk_copy(_, _, _, _, _)
walk_copy(files, i, fault, package_name, acc) ==
    IF i > Len(files) THEN [acc EXCEPT !.ok = TRUE]
    ELSE LET target == copy_target(files[i], package_name)
         IN  IF target = <<>>
             THEN walk_copy(files, i + 1, fault, package_name, acc)
             ELSE IF i = fault
                  THEN [acc EXCEPT !.ok = FALSE]
                  ELSE walk_copy(files, i + 1, fault, package_name,
                         [acc EXCEPT !.dest = Put(@, target, files[i].size),
                                     !.written = Append(@, [dest |-> target, src |-> files[i]])])

\* download_and_extract(tarball_info, output_base): files is the archive's
\* content in os.walk order, fault = 0 an exception while downloading or
\* extracting, out the output tree before the call.  Returns the boolean,
\* the output tree after the call and the copies made.
download_and_extract(tarball_info, files, fault, out) ==
    LET package_name  == extract_version_info(tarball_info.name)[1]
        combined_name == normalize_package_name(package_name)
    IN  IF fault = 0
        THEN [ok |-> FALSE, out |-> out, written |-> <<>>]
        ELSE LET before == IF combined_name \in DOMAIN out.dirs
                           THEN out.dirs[combined_name] ELSE EmptyMap
                 w == walk_copy(files, 1, fault, package_name,
                                [ok |-> FALSE, dest |-> before, written |-> <<>>])
             IN  [ok |-> w.ok,
                  out |-> [exists |-> TRUE, dirs |-> Put(out.dirs, combined_name, w.dest)],
                  written |-> w.written]

-----------------------------------------------------------------------------
(* Inventory Store *)

\* None
None == <<>>

\* the document load_versions returns when versions.json does not exist
FreshDoc == [packages |-> EmptyMap, last_checked |-> 0]

\* versions.json absent
NoFile == [exists |-> FALSE, doc |-> FreshDoc]

\* load_versions; last_checked 0 is None
load_versions(file) == IF file.exists THEN file.doc ELSE FreshDoc

\* a reading of the inventory that takes a never-stamped document as empty
packages_of_stamped(doc) == IF doc.last_checked = 0 THEN EmptyMap ELSE doc.packages

\* existing_packages = versions.get("packages", {})
packages_of(doc) == doc.packages

\* str.capitalize() of a lower-case release name
Capitalize(s) ==
    IF Len(s) = 0 THEN s
    ELSE <<"^" \o s[1]>> \o SubSeq(s, 2, Len(s))

\* number of keys of d whose value satisfies nothing more than being there
Size(d) == Cardinality(DOMAIN d)

\* sum of f over a finite set
RECURSIVE SumOver(_, _)
SumOver(S, f) ==
    IF S = {} THEN 0
    ELSE LET x == CHOOSE y \in S : TRUE IN f[x] + SumOver(S \ {x}, f)

\* round(total_size_bytes / (1024 * 1024), 1), in tenths of a megabyte
round_mb(total_size_bytes) == (total_size_bytes * 20 + 1024 * 1024) \div (2 * 1024 * 1024)

\* the release directories of the output tree: lower-cased names in mint_releases
release_dirs(out) ==
    {d \in DOMAIN out.dirs : Len(d) = 1 /\ LowerTok(d[1]) \in DOMAIN mint_releases}

\* save_versions(data): the document written to versions.json at time now
save_versions(data, out, now) ==
    LET images == [d \in DOMAIN out.dirs |->
                     {f \in DOMAIN out.dirs[d] : ExtIn(f, image_extensions)}]
        rel    == release_dirs(out)
        latest == IF rel = {} THEN None
                  ELSE CHOOSE d \in rel :
                         \A e \in rel : mint_releases[LowerTok(e[1])] <= mint_releases[LowerTok(d[1])]
        stats  == [last_checked        |-> now,
                   total_packages      |-> Size(data.packages),
                   total_images        |-> SumOver(DOMAIN out.dirs, [d \in DOMAIN out.dirs |-> Cardinality(images[d])]),
                   total_size_mb       |-> round_mb(SumOver(DOMAIN out.dirs,
                                             [d \in DOMAIN out.dirs |-> SumOver(images[d], out.dirs[d])])),
                   latest_mint_release |-> IF latest = None THEN None ELSE Capitalize(Lower(latest)),
                   latest_mint_version |-> IF latest = None THEN 0 ELSE mint_releases[LowerTok(latest[1])]]
    IN  [exists |-> TRUE,
         doc    |-> [k \in (DOMAIN data) \cup (DOMAIN stats) |->
                        IF k \in DOMAIN stats THEN stats[k] ELSE data[k]]]

-----------------------------------------------------------------------------
(* The mirror *)

\* the package directories the root page links to, in sorted() order
PackageDirs == <<"mint-backgrounds-nadia", "mint-backgrounds-xfce">>

\* tarball file names a directory page may link to
TarballNames ==
    { <<"mint-backgrounds-", "nadia", "_", "1.4", ".tar.gz">>,
      <<"mint-backgrounds-", "nadia", "_", "1.5", ".tar.gz">>,
      <<"mint-backgrounds-", "xfce", "-extra", ".tar.gz">> }

\* size tokens a directory page may show: "12.9M" and "13M"
SizeTokens == { [num10 |-> 129, unit |-> "M"], [num10 |-> 130, unit |-> "M"] }

\* the links a directory page may hold, each with the size shown after it
Links ==
    { <<n, z>> \in TarballNames \X SizeTokens :
        z.num10 >= 130 \/ (Contains(n, "1.4") /\ Contains(n, "nadia")) }

\* a regular file or a symbolic link inside an archive
File(name, link) == [name |-> name, link |-> link, size |-> 512 * 1024 * Len(name)]

\* what the tarball of a given name holds, in os.walk order
ArchiveOf(tarball_name) ==
    IF Contains(tarball_name, "nadia")
    THEN << File(<<"wallpaper1", ".jpg">>, FALSE),
            File(<<"link-to-wallpaper1", ".jpg">>, TRUE),
            File(<<"screenshot", "-1", ".png">>, FALSE),
            File(<<"Credits">>, FALSE) >>
    ELSE << File(<<"xfce1", ".png">>, FALSE) >>

\* the pages of one directory: at most MaxTarballs links, one size each
DirListings ==
    { l \in SUBSET Links :
        /\ Cardinality(l) <= MaxTarballs
        /\ \A a, b \in l : a[1] = b[1] => a = b }

\* every order of a finite set
Orders(S) ==
    { q \in [1..Cardinality(S) -> S] : \A i, j \in 1..Cardinality(S) : q[i] = q[j] => i = j }

-----------------------------------------------------------------------------
(* Listing Parser over the mirror *)

\* get_package_directories: sorted(set(re.findall(...))) of what fetch_page returned
get_package_directories(page) ==
    IF page.text = "body" THEN remote.root ELSE <<>>

\* get_tarballs_for_package: one dict per link of the page, in the order
\* `order` in which set(tarball_names) happens to iterate
get_tarballs_for_package(package_dir, page, order) ==
    IF page.text # "body" THEN <<>>
    ELSE [i \in 1..Len(order) |->
            [name       |-> order[i][1],
             url        |-> <<package_dir, order[i][1]>>,
             size_bytes |-> parse_size(order[i][2]),
             size_str   |-> order[i][2]]]

-----------------------------------------------------------------------------
(* Update Orchestrator: the diff *)

\* the size test with the threshold left in megabytes
too_small_in_mb(tarball) == tarball.size_bytes < MIN_SIZE_MB

\* the "skip small files" test
too_small(tarball) == tarball.size_bytes < MIN_SIZE_BYTES

\* the inventory test looking the file name up instead of the key
already_have_by_name(tarball, existing) == tarball.name \in DOMAIN existing

\* check_and_download's "do we already have this exact version" test
already_have(tarball, existing) == pkg_key_of(tarball.name) \in DOMAIN existing

\* package_name in [extract_version_info(k)[0] for k in existing_packages]
name_known(package_name, existing) ==
    \E k \in DOMAIN existing : extract_version_info(k)[1] = package_name

\* the inner for-loop of check_and_download from tarball i on
RECURSIVE classify(_, _, _, _)
classify(tarballs, i, existing, acc) ==
    IF i > Len(tarballs) THEN acc
    ELSE LET tarball == tarballs[i]
         IN  IF too_small(tarball) \/ already_have(tarball, existing)
             THEN classify(tarballs, i + 1, existing, acc)
             ELSE IF name_known(extract_version_info(tarball.name)[1], existing)
                  THEN classify(tarballs, i + 1, existing,
                                [acc EXCEPT !.updated = Append(@, tarball)])
                  ELSE classify(tarballs, i + 1, existing,
                                [acc EXCEPT !.new = Append(@, tarball)])

\* has_updates' test looking the file name up instead of the key
not_in_inventory_by_name(tarball, existing) == tarball.name \notin DOMAIN existing

\* has_updates' "pkg_key not in existing_packages" test
not_in_inventory(tarball, existing) == pkg_key_of(tarball.name) \notin DOMAIN existing

\* an inner for-loop of has_updates without the size test
finds_update_of_any_size(tarballs, existing) ==
    \E i \in 1..Len(tarballs) : not_in_inventory(tarballs[i], existing)

\* the inner for-loop of has_updates: TRUE when it returns True
finds_update(tarballs, existing) ==
    \E i \in 1..Len(tarballs) :
        ~ (tarballs[i].size_bytes < MIN_SIZE_BYTES) /\ not_in_inventory(tarballs[i], existing)

\* the InventoryRecord written for a tarball at time now
record_of(tarball, now) ==
    [name          |-> tarball.name,
     version       |-> extract_version_info(tarball.name)[2],
     size          |-> tarball.size_str,
     downloaded_at |-> now]

\* existing_packages after one pass of the download loop
after_download(existing, tarball, ok, now) ==
    IF ok THEN Put(existing, pkg_key_of(tarball.name), record_of(tarball, now))
    ELSE existing

\* a queue with the updated items ahead of the new ones
queue_updated_first(new, updated) == updated \o new

\* all_new = new_packages + updated_packages
queue(new, updated) == new \o updated

\* a download loop that stops at the first failure
next_item_stop_on_failure(idx, ok, n) == IF ok THEN idx + 1 ELSE n + 1

\* the download loop's next index after an item whose processing returned ok
next_item(idx, ok, n) == idx + 1

\* sys.exit code of a returning invocation (both branches of __main__)
exit_code(run_mode, value) == 0

-----------------------------------------------------------------------------
(* Initial states *)

\* the tarball dict of a link under the first package directory
Tarball(name, size_str) ==
    [name |-> name, url |-> <<PackageDirs[1], name>>,
     size_bytes |-> parse_size(size_str), size_str |-> size_str]

\* the disk an earlier successful run over nadia_1.4 leaves behind
DiskAfterNadia14 ==
    LET t   == Tarball(<<"mint-backgrounds-", "nadia", "_", "1.4", ".tar.gz">>,
                       [num10 |-> 130, unit |-> "M"])
        out == download_and_extract(t, ArchiveOf(t.name), Len(ArchiveOf(t.name)) + 1, NoOutput).out
        doc == [FreshDoc EXCEPT !.packages = after_download(EmptyMap, t, TRUE, 1)]
    IN  [file |-> save_versions(doc, out, 2), out |-> out]

\* the disks the script can start from: never run, or run once with one
\* package downloaded
InitialDisks == { [file |-> NoFile, out |-> NoOutput], DiskAfterNadia14 }

\* the summary of an invocation that never was
NoRun ==
    [mode |-> "none", finished |-> "idle", loaded |-> EmptyMap, queued |-> <<>>,
     results |-> <<>>, fetches_ok |-> TRUE, packages |-> EmptyMap, retval |-> FALSE,
     exit |-> 0]

\* the process-local variables before any invocation
IdleRun ==
    /\ pc = "idle"
    /\ mode = "none"
    /\ versions = FreshDoc
    /\ existing_packages = EmptyMap
    /\ package_dirs = <<>>
    /\ dir_idx = 1
    /\ new_packages = <<>>
    /\ updated_packages = <<>>
    /\ all_new = <<>>
    /\ dl_idx = 1
    /\ dl_results = <<>>
    /\ fetches_ok = TRUE
    /\ retval = FALSE
    /\ exit_status = 0
    /\ runs = 0
    /\ prev = NoRun

\* fetch_page and download_and_extract are not run alone
FetchUnused == fp_outcomes = <<>> /\ fp_result = NotCalled
ExtractUnused == de_input = <<>> /\ de_result = [called |-> FALSE, ok |-> FALSE, written |-> <<>>]

\* neither are extract_version_info, parse_size and the two-inventory scan
NotReturned == [called |-> FALSE]
VersionUnused == ev_input = <<>> /\ ev_result = NotReturned
SizeUnused == ps_input = <<>> /\ ps_result = NotReturned
DiffUnused == df_input = <<>> /\ df_result = NotReturned

Init ==
    /\ remote \in [root : {PackageDirs},
                   listing : [{PackageDirs[i] : i \in 1..Len(PackageDirs)} -> DirListings]]
    /\ \E d \in InitialDisks : versions_file = d.file /\ outdir = d.out
    /\ clock = 3
    /\ IdleRun
    /\ FetchUnused
    /\ ExtractUnused
    /\ VersionUnused
    /\ SizeUnused
    /\ DiffUnused

-----------------------------------------------------------------------------
(* One invocation of the script *)

\* the `versions` dict in memory: existing_packages is the very dict under its
\* "packages" key, so the download loop's records are in it
CurrentDoc == [versions EXCEPT !.packages = existing_packages]

\* the summary of the invocation that has ended
Summary ==
    [mode       |-> mode,
     finished   |-> IF pc = "aborted" THEN "crashed" ELSE "returned",
     loaded     |-> versions.packages,
     queued     |-> all_new,
     results    |-> dl_results,
     fetches_ok |-> fetches_ok,
     packages   |-> load_versions(versions_file).packages,
     retval     |-> retval,
     exit       |-> exit_status]

\* the first lines of check_and_download and of has_updates: load_versions,
\* then get_package_directories
Begin(m) ==
    /\ pc \in {"idle", "exited", "aborted"}
    /\ runs < MaxRuns
    /\ runs' = runs + 1
    /\ prev' = IF pc = "idle" THEN prev ELSE Summary
    /\ mode' = m
    /\ versions' = load_versions(versions_file)
    /\ existing_packages' = packages_of(load_versions(versions_file))
    /\ \E page \in FetchReturns :
         /\ pc' = IF page.raised THEN "crashed" ELSE "scan"
         /\ package_dirs' = IF page.raised THEN <<>> ELSE get_package_directories(page)
         /\ fetches_ok' = (~page.raised /\ page.text = "body")
    /\ dir_idx' = 1
    /\ new_packages' = <<>>
    /\ updated_packages' = <<>>
    /\ all_new' = <<>>
    /\ dl_idx' = 1
    /\ dl_results' = <<>>
    /\ retval' = FALSE
    /\ UNCHANGED <<envVars, exit_status, fpVars, deVars, fnVars>>

\* python download_backgrounds.py
CD_Start == Begin("download")

\* one pass of check_and_download's loop over package_dirs
CD_ScanDir ==
    /\ pc = "scan" /\ mode = "download"
    /\ dir_idx <= Len(package_dirs)
    /\ \E page \in FetchReturns, order \in Orders(remote.listing[package_dirs[dir_idx]]) :
         IF page.raised
         THEN /\ pc' = "crashed"
              /\ fetches_ok' = FALSE
              /\ UNCHANGED <<new_packages, updated_packages, dir_idx>>
         ELSE LET tarballs == get_tarballs_for_package(package_dirs[dir_idx], page, order)
                  acc == classify(tarballs, 1, existing_packages,
                                  [new |-> new_packages, updated |-> updated_packages])
              IN  /\ new_packages' = acc.new
                  /\ updated_packages' = acc.updated
                  /\ dir_idx' = dir_idx + 1
                  /\ fetches_ok' = (fetches_ok /\ page.text = "body")
                  /\ pc' = pc
    /\ UNCHANGED <<envVars, mode, versions, existing_packages, package_dirs, all_new,
                   dl_idx, dl_results, retval, exit_status, histVars, fpVars, deVars, fnVars>>

\* an "if not all_new" branch that returns False without saving
CD_NoUpdates_not_saving ==
    /\ pc = "scan" /\ mode = "download"
    /\ dir_idx > Len(package_dirs)
    /\ queue(new_packages, updated_packages) = <<>>
    /\ all_new' = <<>>
    /\ retval' = FALSE
    /\ pc' = "returned"
    /\ UNCHANGED <<envVars, mode, versions, existing_packages, package_dirs, dir_idx,
                   new_packages, updated_packages, dl_idx, dl_results, fetches_ok,
                   exit_status, histVars, fpVars, deVars, fnVars>>

\* "if not all_new": save_versions(versions); return False
CD_NoUpdates ==
    /\ pc = "scan" /\ mode = "download"
    /\ dir_idx > Len(package_dirs)
    /\ queue(new_packages, updated_packages) = <<>>
    /\ all_new' = <<>>
    /\ versions_file' = save_versions(CurrentDoc, outdir, clock)
    /\ clock' = clock + 1
    /\ retval' = FALSE
    /\ pc' = "returned"
    /\ UNCHANGED <<remote, outdir, mode, versions, existing_packages, package_dirs, dir_idx,
                   new_packages, updated_packages, dl_idx, dl_results, fetches_ok,
                   exit_status, histVars, fpVars, deVars, fnVars>>

\* all_new = new_packages + updated_packages; os.makedirs(OUTPUT_DIR, exist_ok=True)
CD_BeginDownloads ==
    /\ pc = "scan" /\ mode = "download"
    /\ dir_idx > Len(package_dirs)
    /\ queue(new_packages, updated_packages) # <<>>
    /\ all_new' = queue(new_packages, updated_packages)
    /\ outdir' = [outdir EXCEPT !.exists = TRUE]
    /\ dl_idx' = 1
    /\ pc' = "download"
    /\ UNCHANGED <<remote, versions_file, clock, mode, versions, existing_packages,
                   package_dirs, dir_idx, new_packages, updated_packages, dl_results,
                   fetches_ok, retval, exit_status, histVars, fpVars, deVars, fnVars>>

\* the faults of a download the orchestrator meets: none (past the last file)
\* or an exception while downloading or extracting (0); an exception in the
\* middle of the copy loop is explored by SpecExtract
DownloadFaults(files) == {0, Len(files) + 1}

\* one pass of the download loop: download_and_extract, then the record
CD_Download ==
    /\ pc = "download"
    /\ dl_idx <= Len(all_new)
    /\ LET tarball == all_new[dl_idx]
           files   == ArchiveOf(tarball.name)
       IN  \E fault \in DownloadFaults(files) :
             LET r == download_and_extract(tarball, files, fault, outdir)
             IN  /\ outdir' = r.out
                 /\ existing_packages' = after_download(existing_packages, tarball, r.ok, clock)
                 /\ clock' = IF r.ok THEN clock + 1 ELSE clock
                 /\ dl_results' = Append(dl_results, r.ok)
                 /\ dl_idx' = next_item(dl_idx, r.ok, Len(all_new))
    /\ UNCHANGED <<remote, versions_file, pc, mode, versions, package_dirs, dir_idx,
                   new_packages, updated_packages, all_new, fetches_ok, retval,
                   exit_status, histVars, fpVars, deVars, fnVars>>

\* versions["packages"] = existing_packages; save_versions(versions); return True
CD_Save ==
    /\ pc = "download"
    /\ dl_idx > Len(all_new)
    /\ versions_file' = save_versions(CurrentDoc, outdir, clock)
    /\ clock' = clock + 1
    /\ retval' = TRUE
    /\ pc' = "returned"
    /\ UNCHANGED <<remote, outdir, mode, versions, existing_packages, package_dirs,
                   dir_idx, new_packages, updated_packages, all_new, dl_idx, dl_results,
                   fetches_ok, exit_status, histVars, fpVars, deVars, fnVars>>

\* python download_backgrounds.py --check-only
HU_Start == Begin("check")

\* one pass of has_updates' loop over package_dirs
HU_ScanDir ==
    /\ pc = "scan" /\ mode = "check"
    /\ dir_idx <= Len(package_dirs)
    /\ \E page \in FetchReturns, order \in Orders(remote.listing[package_dirs[dir_idx]]) :
         IF page.raised
         THEN /\ pc' = "crashed"
              /\ fetches_ok' = FALSE
              /\ UNCHANGED <<dir_idx, retval>>
         ELSE LET tarballs == get_tarballs_for_package(package_dirs[dir_idx], page, order)
              IN  /\ fetches_ok' = (fetches_ok /\ page.text = "body")
                  /\ IF finds_update(tarballs, existing_packages)
                     THEN retval' = TRUE /\ pc' = "returned" /\ dir_idx' = dir_idx
                     ELSE retval' = retval /\ pc' = pc /\ dir_idx' = dir_idx + 1
    /\ UNCHANGED <<envVars, mode, versions, existing_packages, package_dirs, new_packages,
                   updated_packages, all_new, dl_idx, dl_results, exit_status, histVars,
                   fpVars, deVars, fnVars>>

\* a has_updates that stamps and saves the document before returning False
HU_NoUpdates_saving ==
    /\ pc = "scan" /\ mode = "check"
    /\ dir_idx > Len(package_dirs)
    /\ versions_file' = save_versions(CurrentDoc, outdir, clock)
    /\ clock' = clock + 1
    /\ retval' = FALSE
    /\ pc' = "returned"
    /\ UNCHANGED <<remote, outdir, mode, versions, existing_packages, package_dirs, dir_idx,
                   new_packages, updated_packages, all_new, dl_idx, dl_results, fetches_ok,
                   exit_status, histVars, fpVars, deVars, fnVars>>

\* has_updates' final "return False"
HU_NoUpdates ==
    /\ pc = "scan" /\ mode = "check"
    /\ dir_idx > Len(package_dirs)
    /\ retval' = FALSE
    /\ pc' = "returned"
    /\ UNCHANGED <<envVars, mode, versions, existing_packages, package_dirs, dir_idx,
                   new_packages, updated_packages, all_new, dl_idx, dl_results, fetches_ok,
                   exit_status, histVars, fpVars, deVars, fnVars>>

\* __main__: sys.exit after check_and_download or has_updates returned
Main_Exit ==
    /\ pc = "returned"
    /\ exit_status' = exit_code(mode, retval)
    /\ pc' = "exited"
    /\ UNCHANGED <<envVars, mode, versions, existing_packages, package_dirs, dir_idx,
                   new_packages, updated_packages, all_new, dl_idx, dl_results, fetches_ok,
                   retval, histVars, fpVars, deVars, fnVars>>

\* an exception fetch_page let through ends the interpreter with status 1
Main_Traceback ==
    /\ pc = "crashed"
    /\ exit_status' = 1
    /\ pc' = "aborted"
    /\ UNCHANGED <<envVars, mode, versions, existing_packages, package_dirs, dir_idx,
                   new_packages, updated_packages, all_new, dl_idx, dl_results, fetches_ok,
                   retval, histVars, fpVars, deVars, fnVars>>

Next ==
    \/ CD_Start
    \/ CD_ScanDir
    \/ CD_NoUpdates
    \/ CD_BeginDownloads
    \/ CD_Download
    \/ CD_Save
    \/ HU_Start
    \/ HU_ScanDir
    \/ HU_NoUpdates
    \/ Main_Exit
    \/ Main_Traceback

Spec == Init /\ [][Next]_vars

-----------------------------------------------------------------------------
(* fetch_page taken alone *)

\* a mirror with empty directory pages, and a disk the script never ran on
QuietWorld ==
    /\ remote = [root |-> PackageDirs,
                 listing |-> [d \in {PackageDirs[i] : i \in 1..Len(PackageDirs)} |-> {}]]
    /\ versions_file = NoFile
    /\ outdir = NoOutput
    /\ clock = 3

InitFetch ==
    /\ QuietWorld
    /\ IdleRun
    /\ ExtractUnused
    /\ VersionUnused
    /\ SizeUnused
    /\ DiffUnused
    /\ fp_outcomes \in OutcomeSeqs
    /\ fp_result = NotCalled

\* one call of fetch_page
FP_Call ==
    /\ ~ fp_result.called
    /\ fp_outcomes \in OutcomeSeqs
    /\ fp_result' = fetch_page(fp_outcomes)
    /\ UNCHANGED <<envVars, runVars, histVars, fp_outcomes, deVars, fnVars>>

NextFetch == FP_Call

SpecFetch == InitFetch /\ [][NextFetch]_vars

-----------------------------------------------------------------------------
(* download_and_extract taken alone *)

\* file names an archive may hold
FileNames ==
    { <<"wallpaper1", ".jpg">>, <<"Screenshot", "-1", ".PNG">>, <<"Credits">>,
      <<"credits", ".png">>, <<"readme", ".txt">> }

\* the regular files and symbolic links an archive may hold
FilePool == { File(n, l) : n \in FileNames, l \in BOOLEAN }

\* archive contents in os.walk order, at most MaxFiles files
Archives == UNION { [1..n -> FilePool] : n \in 0..MaxFiles }

\* the tarballs given to download_and_extract
ExtractTarballs ==
    { Tarball(<<"mint-backgrounds-", "nadia", "_", "1.4", ".tar.gz">>, [num10 |-> 165, unit |-> "M"]),
      Tarball(<<"mint-backgrounds-", "xfce", "-extra", ".tar.gz">>, [num10 |-> 130, unit |-> "M"]) }

InitExtract ==
    /\ QuietWorld
    /\ IdleRun
    /\ FetchUnused
    /\ VersionUnused
    /\ SizeUnused
    /\ DiffUnused
    /\ de_input \in [tarball : ExtractTarballs, files : Archives, fault : 0..(MaxFiles + 1)]
    /\ de_result = [called |-> FALSE, ok |-> FALSE, written |-> <<>>]

\* one call of download_and_extract(tarball_info, OUTPUT_DIR)
DE_Call ==
    /\ ~ de_result.called
    /\ de_input # <<>>
    /\ LET r == download_and_extract(de_input.tarball, de_input.files, de_input.fault, outdir)
       IN  /\ de_result' = [called |-> TRUE, ok |-> r.ok, written |-> r.written]
           /\ outdir' = r.out
    /\ UNCHANGED <<remote, versions_file, clock, runVars, histVars, fpVars, de_input, fnVars>>

NextExtract == DE_Call

SpecExtract == InitExtract /\ [][NextExtract]_vars

-----------------------------------------------------------------------------
(* Vocabulary of the properties *)

\* the elements of a sequence
Range(q) == {q[i] : i \in 1..Len(q)}

\* the inventory's `packages` mapping on disk
Packages == load_versions(versions_file).packages

\* the current invocation has returned to __main__ and exited
Returned(m) == mode = m /\ pc = "exited"

\* the invocation before the current one was a check_and_download that returned
PrevDownloaded == prev.mode = "download" /\ prev.finished = "returned"

\* every item the previous invocation queued was processed successfully
PrevAllSucceeded == \A i \in 1..Len(prev.results) : prev.results[i]

\* the links of the mirror, whatever the directory
RemoteLinks == UNION {remote.listing[d] : d \in DOMAIN remote.listing}

\* a link the size filter lets through whose VersionKey is not in `existing`
Missing(link, existing) ==
    parse_size(link[2]) >= MIN_SIZE_BYTES /\ pkg_key_of(link[1]) \notin DOMAIN existing

-----------------------------------------------------------------------------
(* Properties *)

C2_SmallNeverQueued ==
    /\ \A t \in Range(new_packages) \cup Range(updated_packages) \cup Range(all_new) :
          t.size_bytes >= MIN_SIZE_BYTES
    /\ \A k \in DOMAIN existing_packages :
          parse_size(existing_packages[k].size) >= MIN_SIZE_BYTES
    /\ \A k \in DOMAIN Packages : parse_size(Packages[k].size) >= MIN_SIZE_BYTES
    /\ (mode = "check" /\ pc \in {"returned", "exited"} /\ retval)
          => \E link \in RemoteLinks : Missing(link, existing_packages)

\* C2 witness: a run has read a page with a small tarball whose VersionKey is
\* not in the inventory, and has ended with nothing queued and nothing recorded
C2_Witness ==
    /\ Returned("download") /\ fetches_ok /\ all_new = <<>>
    /\ \E link \in RemoteLinks :
          /\ parse_size(link[2]) < MIN_SIZE_BYTES
          /\ pkg_key_of(link[1]) \notin DOMAIN Packages

\* C3: once a VersionKey has a record in `packages`, download_and_extract is
\* not invoked again for a tarball with that key, and the record never changes.
C3_RecordImmutable ==
    [][ /\ (pc = "download" /\ dl_results' # dl_results)
            => pkg_key_of(all_new[dl_idx].name) \notin DOMAIN existing_packages
        /\ \A k \in (DOMAIN existing_packages) \cap (DOMAIN existing_packages') :
              existing_packages'[k] = existing_packages[k]
        /\ \A k \in (DOMAIN Packages) \cap (DOMAIN Packages') : Packages'[k] = Packages[k]
      ]_vars

\* C4: fetch_page never raises: it returns a string, and the empty string when
\* no attempt succeeded.
C4_FetchNeverRaises ==
    fp_result.called =>
        /\ ~ fp_result.raised
        /\ (\A i \in 1..fp_result.requests : fp_outcomes[i] # "ok") => fp_result.text = ""

\* C5: a download_and_extract that returns False does not abort the run: every
\* queued item is attempted and the run reaches the final save.
C5_FailureIsolation ==
    /\ pc \in {"crashed", "aborted"} => (all_new = <<>> /\ dl_results = <<>>)
    /\ pc = "download" => (Len(dl_results) = dl_idx - 1 /\ dl_idx <= Len(all_new) + 1)
    /\ (mode = "download" /\ pc \in {"returned", "exited"})
          => /\ Len(dl_results) = Len(all_new)
             /\ versions_file.exists
             /\ versions_file.doc.last_checked = clock - 1
             /\ Packages = existing_packages

\* C5 witness: the first item failed, the second was attempted and succeeded,
\* and the run returned after saving
C5_Witness ==
    /\ Returned("download") /\ Len(dl_results) >= 2
    /\ ~ dl_results[1] /\ dl_results[2]
    /\ pkg_key_of(all_new[2].name) \in DOMAIN Packages

\* C6: after a check_and_download run the keys of `packages` are the keys
\* loaded plus the VersionKeys of the items whose processing succeeded; an item
\* whose processing failed has no record; no loaded key is removed.
C6_RecordsExactlySuccesses ==
    Returned("download") =>
        /\ DOMAIN Packages =
             (DOMAIN versions.packages)
               \cup {pkg_key_of(all_new[i].name) : i \in {j \in 1..Len(all_new) : dl_results[j]}}
        /\ \A i \in 1..Len(all_new) :
             ~ dl_results[i] => pkg_key_of(all_new[i].name) \notin DOMAIN Packages
        /\ (DOMAIN versions.packages) \subseteq (DOMAIN Packages)

\* C7: has_updates writes nothing: while the invocation is a --check-only one,
\* versions.json and the output tree stay as they are and nothing is downloaded.
C7_CheckOnlyWritesNothing ==
    [][ mode' = "check" =>
          /\ versions_file' = versions_file
          /\ outdir' = outdir
          /\ dl_results' = <<>> /\ all_new' = <<>> ]_vars

\* C7 witness: has_updates reported an update on a disk the script never wrote
C7_Witness ==
    /\ Returned("check") /\ retval
    /\ ~ versions_file.exists /\ ~ outdir.exists

C9_ExitStatusTellsUpdates ==
    (PrevDownloaded /\ Returned("download") /\ prev.retval # retval)
        => prev.exit # exit_status

\* C10: download_and_extract never copies a symbolic link, never copies an
\* image-extension file whose lower-cased name contains "screenshot", and writes
\* only non-symlink image-extension files under their own names and the file
\* Credits_{package_name}.
C10_OutputFilter ==
    de_result.called =>
        LET package_name == extract_version_info(de_input.tarball.name)[1]
            credits      == <<"Credits_">> \o package_name
            image(f)     == Len(f.name) > 0
                            /\ LowerTok(f.name[Len(f.name)]) \in {".jpg", ".jpeg", ".png", ".svg"}
            shot(f)      == \E i \in 1..Len(f.name) : LowerTok(f.name[i]) = "screenshot"
            written      == Range(de_result.written)
            on_disk      == UNION {DOMAIN outdir.dirs[d] : d \in DOMAIN outdir.dirs}
        IN  /\ \A w \in written : ~ w.src.link
            /\ \A w \in written : ~ (image(w.src) /\ shot(w.src))
            /\ \A w \in written : (image(w.src) /\ w.dest = w.src.name) \/ w.dest = credits
            /\ \A w \in written : w.src \in Range(de_input.files)
            /\ on_disk = {w.dest : w \in written}

\* C10 witness: the archive held a symbolic link with an image extension next
\* to a regular image, and the call copied one file
C10_Witness ==
    /\ de_result.called /\ de_result.ok
    /\ \E i \in 1..Len(de_input.files) :
          de_input.files[i].link /\ is_image(Lower(de_input.files[i].name))
    /\ Len(de_result.written) = 1

\* C11: every non-symlink extracted file whose lower-cased name contains
\* "credits" is copied to the destination as Credits_{package_name}, whatever
\* its extension.
C11_CreditsAlwaysRenamed ==
    (de_result.called /\ de_result.ok) =>
        LET package_name == extract_version_info(de_input.tarball.name)[1]
            credits      == <<"Credits_">> \o package_name
        IN  \A i \in 1..Len(de_input.files) :
              LET f == de_input.files[i]
              IN  (~ f.link /\ \E j \in 1..Len(f.name) : LowerTok(f.name[j]) = "credits")
                    => \E w \in Range(de_result.written) : w.src = f /\ w.dest = credits

-----------------------------------------------------------------------------
(* extract_version_info taken alone *)

\* longest package name and longest version string, in tokens
MaxTokens == 2

\* the pieces a package name or a version string is made of
NameTokens == {"nadia", "1.4", "_", "-extra", ".tar.gz", "mint-backgrounds-"}

\* package names and version strings
Pieces == UNION { [1..n -> NameTokens] : n \in 1..MaxTokens }

\* <prefix>-<name>_<version>.tar.gz, and <prefix>-<name>.tar.gz
FileNameOf(in) ==
    IF in.versioned
    THEN <<"mint-backgrounds-">> \o in.name \o <<"_">> \o in.version \o <<".tar.gz">>
    ELSE <<"mint-backgrounds-">> \o in.name \o <<".tar.gz">>

InitVersion ==
    /\ QuietWorld
    /\ IdleRun
    /\ FetchUnused
    /\ ExtractUnused
    /\ SizeUnused
    /\ DiffUnused
    /\ ev_input \in [versioned : BOOLEAN, name : Pieces, version : Pieces]
    /\ ev_result = NotReturned

\* one call of extract_version_info
EV_Call ==
    /\ ~ ev_result.called
    /\ ev_input # <<>>
    /\ ev_result' = [called |-> TRUE, value |-> extract_version_info(FileNameOf(ev_input))]
    /\ UNCHANGED <<envVars, runVars, histVars, fpVars, deVars, ev_input, psVars, dfVars>>

NextVersion == EV_Call

SpecVersion == InitVersion /\ [][NextVersion]_vars

\* the string holds neither the suffix nor the prefix that the function removes
NoAffix(s) == ~ Contains(s, ".tar.gz") /\ ~ Contains(s, "mint-backgrounds-")

-----------------------------------------------------------------------------
(* parse_size taken alone *)

\* largest number of a size token that is enumerated, in tenths
MaxTenths == 10

\* the letter after the number of a size token ("" when there is none)
UnitLetters == {"K", "M", "G", "B", "T", ""}

\* the numbers of the size tokens, in tenths: the small ones, the sizes around
\* MIN_SIZE_MB, and 50; in gigabytes only up to 0.1
TenthsOf(unit) ==
    IF unit = "G" THEN 0..1 ELSE (0..MaxTenths) \cup {129, 130, 165, 500}

\* the size tokens given to parse_size
SizeInputs == UNION { { [num10 |-> n, unit |-> u] : n \in TenthsOf(u) } : u \in UnitLetters }

InitSize ==
    /\ QuietWorld
    /\ IdleRun
    /\ FetchUnused
    /\ ExtractUnused
    /\ VersionUnused
    /\ DiffUnused
    /\ ps_input \in SizeInputs
    /\ ps_result = NotReturned

\* one call of parse_size
PS_Call ==
    /\ ~ ps_result.called
    /\ ps_input # <<>>
    /\ ps_result' = [called |-> TRUE, value |-> parse_size(ps_input)]
    /\ UNCHANGED <<envVars, runVars, histVars, fpVars, deVars, evVars, ps_input, dfVars>>

NextSize == PS_Call

SpecSize == InitSize /\ [][NextSize]_vars

\* C13: parse_size multiplies the number by 1024 for K, 1024^2 for M and
\* 1024^3 for G, and by 1 for any other unit letter, so that the number comes
\* back as a byte count.
C13_OtherUnitIsBytes ==
    ps_result.called =>
        LET m == CASE ps_input.unit = "K" -> 1024
                   [] ps_input.unit = "M" -> 1024 * 1024
                   [] ps_input.unit = "G" -> 1024 * 1024 * 1024
                   [] OTHER               -> 1
        IN  ps_result.value = (ps_input.num10 * m) \div 10

-----------------------------------------------------------------------------
(* fetch_page: retries and backoff *)

\* attempt k of the call was made and met a rate limit or a connection error
RetryableAt(k) ==
    k \in 1..fp_result.requests /\ fp_outcomes[k] \in {"http429", "http503", "urlerror"}

C15_OtherStatusReturnsAtOnce ==
    fp_result.called =>
        \A k \in 1..MAX_RETRIES :
            (k <= fp_result.requests /\ fp_outcomes[k] = "http_other")
                => /\ fp_result.requests = k
                   /\ Len(fp_result.waits) = k - 1
                   /\ fp_result.text = ""
                   /\ ~ fp_result.raised

\* a 404 at the second attempt, after one rate limit
C15_Witness ==
    /\ fp_result.called
    /\ fp_outcomes[1] = "http429"
    /\ fp_outcomes[2] = "http_other"
    /\ fp_result.requests = 2
    /\ fp_result.waits = <<RETRY_DELAY>>
    /\ fp_result.text = ""

-----------------------------------------------------------------------------
(* check_and_download: processing order and persistence *)

\* the class of a queued tarball against the inventory as loaded
IsUpdated(tarball) == name_known(extract_version_info(tarball.name)[1], versions.packages)

\* C16: check_and_download passes the queued items to download_and_extract
\* with every "new" item before every "updated" item and, within each class,
\* in the order in which they were queued; each pass of the loop handles the
\* next item of that order.
C16_NewBeforeUpdatedInOrder ==
    [][ (pc = "download" /\ dl_results' # dl_results) =>
          /\ \A i, j \in 1..Len(all_new) :
                (IsUpdated(all_new[i]) /\ ~ IsUpdated(all_new[j])) => j < i
          /\ SelectSeq(all_new, LAMBDA t : ~ IsUpdated(t)) = new_packages
          /\ SelectSeq(all_new, IsUpdated) = updated_packages
          /\ Len(dl_results) = dl_idx - 1
          /\ Len(dl_results') = dl_idx
          /\ dl_idx' = dl_idx + 1
          /\ all_new' = all_new
          /\ dl_results'[dl_idx] =>
                LET k == pkg_key_of(all_new[dl_idx].name)
                IN  /\ k \in DOMAIN existing_packages'
                    /\ existing_packages'[k].name = all_new[dl_idx].name
                    /\ existing_packages'[k].downloaded_at = clock
      ]_vars

\* a run that found an updated package on the first page and a new one on the
\* second has processed the new one first
C16_Witness ==
    /\ pc = "download"
    /\ Len(all_new) = 2
    /\ dl_results = <<TRUE, TRUE>>
    /\ ~ IsUpdated(all_new[1])
    /\ IsUpdated(all_new[2])
    /\ all_new[2].url[1] = PackageDirs[1]
    /\ all_new[1].url[1] = PackageDirs[2]


\* C17: every completed check_and_download run saves the inventory exactly
\* once, as its last state-changing step: with items queued, after all of
\* them have been attempted and never between items; with nothing queued it
\* saves all the same, so that last_checked is stamped on every run.
C17_SavesOnceAsLastStep ==
    [][ /\ versions_file' # versions_file =>
              (mode = "download" /\ pc \in {"scan", "download"} /\ pc' = "returned")
        /\ (mode = "download" /\ pc # "returned" /\ pc' = "returned") =>
              /\ versions_file' # versions_file
              /\ versions_file'.exists
              /\ versions_file'.doc.last_checked = clock
              /\ versions_file'.doc.packages = existing_packages
              /\ Len(dl_results) = Len(all_new')
              /\ outdir' = outdir
        /\ (mode = "download" /\ pc = "returned") =>
              /\ versions_file' = versions_file
              /\ outdir' = outdir
              /\ pc' = "exited"
      ]_vars

\* a second run in a row that queued nothing has stamped last_checked anew
C17_Witness ==
    /\ Returned("download")
    /\ all_new = <<>>
    /\ prev.mode = "download" /\ prev.finished = "returned" /\ prev.queued = <<>>
    /\ versions_file.exists
    /\ versions_file.doc.last_checked = clock - 1
    /\ versions_file.doc.packages = prev.packages

-----------------------------------------------------------------------------
(* the scan of check_and_download and of has_updates on two inventories *)

\* the `packages` mappings an inventory may hold
PackageMaps ==
    { EmptyMap,
      DiskAfterNadia14.file.doc.packages,
      after_download(DiskAfterNadia14.file.doc.packages,
                     Tarball(<<"mint-backgrounds-", "xfce", "-extra", ".tar.gz">>,
                             [num10 |-> 130, unit |-> "M"]), TRUE, 2) }

\* the inventory documents with a given `packages` mapping: never saved, saved
\* at some time over some output tree, and saved with a stale package count
DocsWith(packages) ==
    LET bare  == [FreshDoc EXCEPT !.packages = packages]
        saved == { save_versions(bare, out, now).doc :
                     out \in {NoOutput, DiskAfterNadia14.out}, now \in 1..2 }
    IN  {bare} \cup saved \cup { [d EXCEPT !.total_packages = @ + 1] : d \in saved }

\* the two outer for-loops of check_and_download from directory i on
RECURSIVE scan(_, _, _, _, _)
scan(dirs, i, tarballs_of, existing, acc) ==
    IF i > Len(dirs) THEN acc
    ELSE scan(dirs, i + 1, tarballs_of, existing,
              classify(tarballs_of[dirs[i]], 1, existing, acc))

\* what check_and_download queues from an inventory document
queued_from(doc, dirs, tarballs_of) ==
    LET acc == scan(dirs, 1, tarballs_of, packages_of(doc), [new |-> <<>>, updated |-> <<>>])
    IN  [new |-> acc.new, updated |-> acc.updated, all_new |-> queue(acc.new, acc.updated)]

\* what has_updates returns from an inventory document
has_updates(doc, dirs, tarballs_of) ==
    \E i \in 1..Len(dirs) : finds_update(tarballs_of[dirs[i]], packages_of(doc))

\* the iteration orders of set(tarball_names), one per directory page
PageOrders ==
    LET D == {PackageDirs[i] : i \in 1..Len(PackageDirs)}
    IN  { f \in [D -> UNION { Orders(l) : l \in DirListings }] :
            \A d \in D : f[d] \in Orders(remote.listing[d]) }

InitDiff ==
    /\ remote \in [root : {PackageDirs},
                   listing : [{PackageDirs[i] : i \in 1..Len(PackageDirs)} -> DirListings]]
    /\ versions_file = NoFile
    /\ outdir = NoOutput
    /\ clock = 3
    /\ IdleRun
    /\ FetchUnused
    /\ ExtractUnused
    /\ VersionUnused
    /\ SizeUnused
    /\ \E packages \in PackageMaps :
         df_input \in [a : DocsWith(packages), b : DocsWith(packages), order : PageOrders]
    /\ df_result = NotReturned

\* the scans of check_and_download and of has_updates, once from each of the
\* two documents, over the same pages
DF_Call ==
    /\ ~ df_result.called
    /\ df_input # <<>>
    /\ LET page == [raised |-> FALSE, text |-> "body"]
           dirs == get_package_directories(page)
           tarballs_of == [d \in DOMAIN df_input.order |->
                              get_tarballs_for_package(d, page, df_input.order[d])]
           outcome(doc) == [queued  |-> queued_from(doc, dirs, tarballs_of),
                            updates |-> has_updates(doc, dirs, tarballs_of)]
       IN  df_result' = [called |-> TRUE, a |-> outcome(df_input.a), b |-> outcome(df_input.b)]
    /\ UNCHANGED <<envVars, runVars, histVars, fpVars, deVars, evVars, psVars, df_input>>

NextDiff == DF_Call

SpecDiff == InitDiff /\ [][NextDiff]_vars

\* C18: for two inventory documents with the same `packages` mapping that
\* differ only in last_checked and the derived statistics, check_and_download
\* queues the same items with the same new/updated classification and
\* has_updates returns the same value, for every remote content.
C18_DerivedFieldsNotRead ==
    (df_result.called /\ df_input.a.packages = df_input.b.packages) =>
        /\ df_result.a.queued.new = df_result.b.queued.new
        /\ df_result.a.queued.updated = df_result.b.queued.updated
        /\ df_result.a.queued.all_new = df_result.b.queued.all_new
        /\ df_result.a.updates = df_result.b.updates

\* a never-stamped document and a saved one with a stale count, both holding
\* nadia_1.4, against a mirror that offers nadia_1.5
C18_Witness ==
    /\ df_result.called
    /\ df_input.a.last_checked = 0
    /\ df_input.b.last_checked = 2
    /\ df_input.b.total_packages = 2
    /\ df_input.b.total_images # 0
    /\ df_input.a.packages = df_input.b.packages
    /\ df_input.a.packages # EmptyMap
    /\ Len(df_result.a.queued.updated) = 1
    /\ df_result.b.queued = df_result.a.queued
    /\ df_result.a.updates /\ df_result.b.updates


\* C19: for every inventory and every remote content, has_updates returns
\* True if and only if check_and_download, run on the same inventory and the
\* same remote content, would queue at least one item.
C19_HasUpdatesIffQueueNonEmpty ==
    df_result.called =>
        /\ df_result.a.updates <=> (df_result.a.queued.all_new # <<>>)
        /\ df_result.b.updates <=> (df_result.b.queued.all_new # <<>>)

\* the mirror offers nadia_1.4 at 13M and at 12.9M in its two directories, the
\* inventory holds nadia_1.4: nothing to queue and has_updates False
C19_Witness ==
    /\ df_result.called
    /\ df_input.a.packages = DiskAfterNadia14.file.doc.packages
    /\ \E l \in remote.listing[PackageDirs[1]] : l[2].num10 = 130
    /\ \E l \in remote.listing[PackageDirs[2]] : l[2].num10 = 129
    /\ ~ df_result.a.updates
    /\ df_result.a.queued.all_new = <<>>


\* C20: a tarball whose download_and_extract failed in one check_and_download
\* run is queued again by the next run against the same remote content, once
\* that run has read every page.
C20_FailedItemQueuedAgain ==
    (PrevDownloaded /\ Returned("download") /\ fetches_ok) =>
        \A i \in 1..Len(prev.results) :
            ~ prev.results[i] => prev.queued[i] \in Range(all_new)

====
